---- MODULE Spec2Model ----
(***************************************************************************)
(* State-machine model of the PresetHub plugin (src/main.py, v2.0.0): the  *)
(* in-memory store self.data, the store file global_presets.json, its      *)
(* backup global_presets.json.bak, and the command handlers add_preset,    *)
(* add_alias and del_preset together with _load_data and _save_safe.       *)
(*                                                                         *)
(* Python values and JSON documents are both modelled as records           *)
(* [t, s, o]: t is the type tag, s the text of a string or number, o the   *)
(* mapping of a dict/object.  Dict insertion order is not modelled.        *)
(***************************************************************************)
EXTENDS Integers, Sequences, FiniteSets, Bags, TLC

VARIABLES
    data,     \* self.data (a Python dict)
    file,     \* content of self.preset_file
    backup,   \* content of self.backup_file
    call,     \* the handler invoked last and its arguments
    out,      \* what that handler produced: reply, reported aliases, persist attempts
    pre,      \* data, file and backup at the moment that handler was entered
    steps,    \* number of handler invocations so far
    faults,   \* number of file-system failures so far
    hist,     \* outcome of the latest _save_safe call; whether a migration was persisted
    running   \* bag of the handlers suspended at a yield or await

vars == <<data, file, backup, call, out, pre, steps, faults, hist, running>>

---------------------------------------------------------------------------
(* Bounds of the model *)

MaxSteps == 3     \* handler invocations in one run
MaxFaults == 1    \* file-system failures in one run
MaxEntries == 2   \* configured "key: value" entries

---------------------------------------------------------------------------
(* Python values *)

EmptyMap == [k \in {} |-> 0]

PyNone == [t |-> "none", s |-> "", o |-> EmptyMap]
PyStr(s) == [t |-> "str", s |-> s, o |-> EmptyMap]
PyInt(s) == [t |-> "int", s |-> s, o |-> EmptyMap]
PyList == [t |-> "list", s |-> "", o |-> EmptyMap]
PyDict(m) == [t |-> "dict", s |-> "", o |-> m]

(* JSON documents *)

JNull == [t |-> "null", s |-> "", o |-> EmptyMap]
JString(s) == [t |-> "string", s |-> s, o |-> EmptyMap]
JNumber(s) == [t |-> "number", s |-> s, o |-> EmptyMap]
JArray == [t |-> "array", s |-> "", o |-> EmptyMap]
JObject(m) == [t |-> "object", s |-> "", o |-> m]

MapSet(m, k, v) == [x \in (DOMAIN m) \cup {k} |-> IF x = k THEN v ELSE m[x]]
MapDel(m, k) == [x \in (DOMAIN m) \ {k} |-> m[x]]

(* json.dump(self.data, f, ensure_ascii=False, indent=2) *)
RECURSIVE Dump(_)
Dump(v) ==
    CASE v.t = "none" -> JNull
      [] v.t = "str"  -> JString(v.s)
      [] v.t = "int"  -> JNumber(v.s)
      [] v.t = "list" -> JArray
      [] v.t = "dict" -> JObject([k \in DOMAIN v.o |-> Dump(v.o[k])])

(* json.load(f) *)
RECURSIVE Parse(_)
Parse(j) ==
    CASE j.t = "null"   -> PyNone
      [] j.t = "string" -> PyStr(j.s)
      [] j.t = "number" -> PyInt(j.s)
      [] j.t = "array"  -> PyList
      [] j.t = "object" -> PyDict([k \in DOMAIN j.o |-> Parse(j.o[k])])

(* repr(v) and str(v) *)
RECURSIVE Repr(_), ReprItems(_, _)
Repr(v) ==
    CASE v.t = "none" -> "None"
      [] v.t = "str"  -> "'" \o v.s \o "'"
      [] v.t = "int"  -> v.s
      [] v.t = "list" -> "[]"
      [] v.t = "dict" -> "{" \o ReprItems(v.o, DOMAIN v.o) \o "}"
ReprItems(m, K) ==
    IF K = {} THEN ""
    ELSE LET k == CHOOSE x \in K : TRUE
         IN  "'" \o k \o "': " \o Repr(m[k])
             \o (IF K \ {k} = {} THEN "" ELSE ", " \o ReprItems(m, K \ {k}))

StrOf(v) == IF v.t = "str" THEN v.s ELSE Repr(v)

---------------------------------------------------------------------------
(* Files *)

Absent == [kind |-> "absent", doc |-> JNull, cut |-> 0]
Text(j) == [kind |-> "text", doc |-> j, cut |-> 0]
\* a proper prefix of the bytes of f: never parseable as JSON
Truncated(f) == [kind |-> "partial", doc |-> f.doc, cut |-> f.cut + 1]

Exists(f) == f.kind # "absent"

---------------------------------------------------------------------------
(* The store *)

Presets(d) == d.o["presets"].o
Aliases(d) == d.o["aliases"].o

Store(p, a) == PyDict([k \in {"presets", "aliases"} |->
                          IF k = "presets" THEN PyDict(p) ELSE PyDict(a)])

WithPresets(d, p) == PyDict([d.o EXCEPT !["presets"] = PyDict(p)])
WithAliases(d, a) == PyDict([d.o EXCEPT !["aliases"] = PyDict(a)])

EmptyData == Store(EmptyMap, EmptyMap)

\* The source's names are Chinese; they are transliterated here:
\* shouban, erciyuan, cyberpunk (presets), dongman, moxing (aliases).
DefaultPresets ==
    [k \in {"shouban", "erciyuan", "cyberpunk"} |->
        CASE k = "shouban"   -> PyStr("Transform this image into a high-quality figurine style, plastic texture, studio lighting")
          [] k = "erciyuan"  -> PyStr("anime style, flat color, cel shading, high quality")
          [] k = "cyberpunk" -> PyStr("cyberpunk style, neon lights, high tech, futuristic city")]

DefaultAliases ==
    [k \in {"dongman", "moxing"} |->
        CASE k = "dongman" -> PyStr("erciyuan")
          [] k = "moxing"  -> PyStr("shouban")]

DefaultData == Store(DefaultPresets, DefaultAliases)

(* resolve_preset: the content, None, or an exception *)
Raised == [t |-> "raise", s |-> "", o |-> EmptyMap]

Resolve(d, key) ==
    IF key = "" THEN PyNone
    ELSE IF d.o["aliases"].t # "dict" THEN Raised
    ELSE LET al == Aliases(d)
             real == IF key \in DOMAIN al THEN al[key] ELSE PyStr(key)
         IN  IF real.t \in {"dict", "list"} THEN Raised
             ELSE IF real.t = "str" /\ real.s \in DOMAIN Presets(d)
                  THEN Presets(d)[real.s]
                  ELSE PyNone


(* get_all_keys: the names, or an exception *)
GetAllKeys(d) ==
    IF d.o["aliases"].t # "dict" \/ d.o["presets"].t # "dict" THEN Raised
    ELSE [t |-> "list", s |-> "", o |-> EmptyMap,
          items |-> (DOMAIN Presets(d)) \cup (DOMAIN Aliases(d))]

---------------------------------------------------------------------------
(* _save_safe.  io is what the file system does during the call:           *)
(*   ok            every step succeeds                                     *)
(*   copy_fail     shutil.copy raises, backup file untouched               *)
(*   copy_partial  shutil.copy raises after writing part of the backup     *)
(*   open_fail     open(preset_file, 'w') raises, store file untouched     *)
(*   write_fail    json.dump raises after the store file was truncated     *)
(* The data directory exists (StarTools.get_data_dir), so os.makedirs with *)
(* exist_ok=True does nothing.                                             *)

IoOutcomes == {"ok", "copy_fail", "copy_partial", "open_fail", "write_fail"}

SaveOutcomes(f) ==
    IF Exists(f) THEN IoOutcomes ELSE {"ok", "open_fail", "write_fail"}


\* variant: the backup is taken after the write instead of before it
SaveSafe_BackupAfterWrite(d, f, b, io) ==
    CASE Exists(f) /\ io = "copy_fail" ->
            [file |-> f, backup |-> b, ok |-> FALSE, wrote |-> FALSE, io |-> io]
      [] Exists(f) /\ io = "copy_partial" ->
            [file |-> f, backup |-> Truncated(f), ok |-> FALSE, wrote |-> FALSE, io |-> io]
      [] io = "open_fail" ->
            [file |-> f, backup |-> b, ok |-> FALSE, wrote |-> TRUE, io |-> io]
      [] io = "write_fail" ->
            [file |-> Truncated(Text(Dump(d))), backup |-> b,
             ok |-> FALSE, wrote |-> TRUE, io |-> io]
      [] OTHER ->
            [file |-> Text(Dump(d)), backup |-> Text(Dump(d)), ok |-> TRUE,
             wrote |-> TRUE, io |-> "ok"]

SaveSafe(d, f, b, io) ==
    LET copied == IF Exists(f) THEN f ELSE b
    IN  CASE Exists(f) /\ io = "copy_fail" ->
                [file |-> f, backup |-> b, ok |-> FALSE, wrote |-> FALSE, io |-> io]
          [] Exists(f) /\ io = "copy_partial" ->
                [file |-> f, backup |-> Truncated(f), ok |-> FALSE, wrote |-> FALSE, io |-> io]
          [] io = "open_fail" ->
                [file |-> f, backup |-> copied, ok |-> FALSE, wrote |-> TRUE, io |-> io]
          [] io = "write_fail" ->
                [file |-> Truncated(Text(Dump(d))), backup |-> copied,
                 ok |-> FALSE, wrote |-> TRUE, io |-> io]
          [] OTHER ->
                [file |-> Text(Dump(d)), backup |-> copied, ok |-> TRUE, wrote |-> TRUE,
                 io |-> "ok"]

---------------------------------------------------------------------------
(* _init_default_data and _load_data *)

\* no _save_safe call was made
NoSave == [ok |-> FALSE, wrote |-> FALSE, io |-> "none"]

Loaded(d, f, b, saves, sv, branch) ==
    [data |-> d, file |-> f, backup |-> b, saves |-> saves, saveOk |-> sv.ok,
     wrote |-> sv.wrote, branch |-> branch]

InitDefaultData(f, b, io) ==
    LET sv == SaveSafe(DefaultData, f, b, io)
    IN  Loaded(DefaultData, sv.file, sv.backup, 1, sv, "default")


\* variant: the test is on the truth value of raw["presets"], false for {}
IsV2_NonEmpty(raw) ==
    /\ "presets" \in DOMAIN raw.o
    /\ raw.o["presets"].t = "dict"
    /\ DOMAIN raw.o["presets"].o # {}

IsV2(raw) ==
    /\ "presets" \in DOMAIN raw.o
    /\ raw.o["presets"].t = "dict"


\* variant: the 'prompt' field of a mapping entry is not looked at
MigratedPresets_NoPrompt(raw) ==
    [k \in DOMAIN raw.o |-> PyStr(StrOf(raw.o[k]))]

MigratedPresets(raw) ==
    [k \in DOMAIN raw.o |->
        LET v == raw.o[k]
        IN  IF v.t = "dict" /\ "prompt" \in DOMAIN v.o
            THEN PyStr(StrOf(v.o["prompt"]))
            ELSE PyStr(StrOf(v))]


\* variant: only the JSON decoding error is caught
LoadData_CatchDecodeOnly(f, b, io) ==
    IF ~Exists(f) THEN InitDefaultData(f, b, io)
    ELSE IF f.kind # "text" THEN InitDefaultData(f, b, io)
    ELSE LET raw == Parse(f.doc)
         IN  IF raw.t # "dict" THEN Loaded(EmptyData, f, b, 0, NoSave, "crash")
             ELSE IF IsV2(raw)
             THEN LET d == IF "aliases" \in DOMAIN raw.o
                           THEN raw
                           ELSE PyDict(MapSet(raw.o, "aliases", PyDict(EmptyMap)))
                  IN  IF d.o["aliases"].t \in {"none", "int"}
                      THEN Loaded(EmptyData, f, b, 0, NoSave, "crash")
                      ELSE Loaded(d, f, b, 0, NoSave, "v2")
             ELSE LET d == Store(MigratedPresets(raw), EmptyMap)
                      sv == SaveSafe(d, f, b, io)
                  IN  Loaded(d, sv.file, sv.backup, 1, sv, "migrated")

\* variant: the migrated store is not persisted
LoadData_MigrateNoSave(f, b, io) ==
    IF ~Exists(f) THEN InitDefaultData(f, b, io)
    ELSE IF f.kind # "text" THEN InitDefaultData(f, b, io)
    ELSE LET raw == Parse(f.doc)
         IN  IF raw.t # "dict" THEN InitDefaultData(f, b, io)
             ELSE IF IsV2(raw)
             THEN LET d == IF "aliases" \in DOMAIN raw.o
                           THEN raw
                           ELSE PyDict(MapSet(raw.o, "aliases", PyDict(EmptyMap)))
                  IN  IF d.o["aliases"].t \in {"none", "int"}
                      THEN InitDefaultData(f, b, io)
                      ELSE Loaded(d, f, b, 0, NoSave, "v2")
             ELSE Loaded(Store(MigratedPresets(raw), EmptyMap), f, b, 0, NoSave, "migrated")

LoadData(f, b, io) ==
    IF ~Exists(f) THEN InitDefaultData(f, b, io)
    ELSE IF f.kind # "text" THEN InitDefaultData(f, b, io)      \* json.load raises
    ELSE LET raw == Parse(f.doc)
         IN  IF raw.t # "dict" THEN InitDefaultData(f, b, io)   \* TypeError / AttributeError
             ELSE IF IsV2(raw)
             THEN LET d == IF "aliases" \in DOMAIN raw.o
                           THEN raw
                           ELSE PyDict(MapSet(raw.o, "aliases", PyDict(EmptyMap)))
                  IN  IF d.o["aliases"].t \in {"none", "int"}   \* len() raises
                      THEN InitDefaultData(f, b, io)
                      ELSE Loaded(d, f, b, 0, NoSave, "v2")
             ELSE LET d == Store(MigratedPresets(raw), EmptyMap)
                      sv == SaveSafe(d, f, b, io)
                  IN  Loaded(d, sv.file, sv.backup, 1, sv, "migrated")

---------------------------------------------------------------------------
(* Inputs *)

\* names given to the commands: a default preset, its default alias, and a name
\* the default store does not hold
Names == {"erciyuan", "dongman", "n1"}
Contents == {"c1", "c2"}

\* event.message_str.strip().split(maxsplit=2): the command word, then what follows
Messages ==
    {<<"add_preset">>, <<"add_preset", "n1">>}
    \cup {<<"add_preset", k, c>> : k \in Names, c \in Contents}

\* what the file system may do during a _save_safe call made now
Io(f) == IF faults < MaxFaults THEN SaveOutcomes(f) ELSE {"ok"}
Failed(io) == IF io \in {"ok", "none"} THEN 0 ELSE 1

---------------------------------------------------------------------------
(* The command handlers.  Each yields the new data, file and backup and    *)
(* what the caller sees.                                                   *)

Outcome(d, f, b, reply, removed, saves, sv) ==
    [data |-> d, file |-> f, backup |-> b,
     out |-> [reply |-> reply, removed |-> removed, saves |-> saves,
              saveOk |-> sv.ok, wrote |-> sv.wrote, io |-> sv.io]]


\* variant: a promoted name keeps its alias entry
AddPresetData_KeepAlias(d, key, content) ==
    WithPresets(d, MapSet(Presets(d), key, PyStr(content)))

AddPresetData(d, key, content) ==
    LET al == IF key \in DOMAIN Aliases(d) THEN MapDel(Aliases(d), key) ELSE Aliases(d)
    IN  WithPresets(WithAliases(d, al), MapSet(Presets(d), key, PyStr(content)))


\* variant: the store is persisted before the new content is put in
AddPreset_SaveBeforeMutation(d, f, b, parts, io) ==
    IF Len(parts) < 3
    THEN Outcome(d, f, b, "usage", {}, 0, NoSave)
    ELSE LET d1 == AddPresetData(d, parts[2], parts[3])
             sv == SaveSafe(d, f, b, io)
         IN  Outcome(d1, sv.file, sv.backup,
                     IF sv.ok THEN "preset_saved" ELSE "save_failed", {}, 1, sv)

AddPreset(d, f, b, parts, io) ==
    IF Len(parts) < 3
    THEN Outcome(d, f, b, "usage", {}, 0, NoSave)
    ELSE LET d1 == AddPresetData(d, parts[2], parts[3])
             sv == SaveSafe(d1, f, b, io)
         IN  Outcome(d1, sv.file, sv.backup,
                     IF sv.ok THEN "preset_saved" ELSE "save_failed", {}, 1, sv)


\* variant: an existing alias entry is kept instead of overwritten (setdefault)
AddAliasData_NoOverwrite(d, source, alias) ==
    IF alias \in DOMAIN Aliases(d) THEN d
    ELSE WithAliases(d, MapSet(Aliases(d), alias, PyStr(source)))

AddAliasData(d, source, alias) ==
    WithAliases(d, MapSet(Aliases(d), alias, PyStr(source)))


\* variant: the check that alias is not a preset name is missing
AddAlias_NoPresetCheck(d, f, b, source, alias, io) ==
    IF source \notin DOMAIN Presets(d)
    THEN Outcome(d, f, b, "source_missing", {}, 0, NoSave)
    ELSE LET d1 == AddAliasData(d, source, alias)
             sv == SaveSafe(d1, f, b, io)
         IN  Outcome(d1, sv.file, sv.backup, "linked", {}, 1, sv)

\* variant: the check that source is a preset is missing
AddAlias_NoSourceCheck(d, f, b, source, alias, io) ==
    IF alias \in DOMAIN Presets(d)
    THEN Outcome(d, f, b, "alias_is_preset", {}, 0, NoSave)
    ELSE LET d1 == AddAliasData(d, source, alias)
             sv == SaveSafe(d1, f, b, io)
         IN  Outcome(d1, sv.file, sv.backup, "linked", {}, 1, sv)

AddAlias(d, f, b, source, alias, io) ==
    IF source \notin DOMAIN Presets(d)
    THEN Outcome(d, f, b, "source_missing", {}, 0, NoSave)
    ELSE IF alias \in DOMAIN Presets(d)
    THEN Outcome(d, f, b, "alias_is_preset", {}, 0, NoSave)
    ELSE LET d1 == AddAliasData(d, source, alias)
             sv == SaveSafe(d1, f, b, io)
         IN  Outcome(d1, sv.file, sv.backup, "linked", {}, 1, sv)


\* variant: deleting an alias also deletes the preset it points to
DelAliasData_WithTarget(d, key) ==
    LET real == Aliases(d)[key].s
    IN  WithPresets(WithAliases(d, MapDel(Aliases(d), key)), MapDel(Presets(d), real))

DelAliasData(d, key) == WithAliases(d, MapDel(Aliases(d), key))


\* variant: every alias is taken for an alias of key
ToRemove_All(d, key) == DOMAIN Aliases(d)

\* to_remove = [k for k, v in aliases.items() if v == key]
ToRemove(d, key) == {k \in DOMAIN Aliases(d) : Aliases(d)[k] = PyStr(key)}


\* variant: the preset is deleted without the cascade over its aliases
DelPresetData_NoCascade(d, key) == WithPresets(d, MapDel(Presets(d), key))

DelPresetData(d, key) ==
    LET d1 == WithPresets(d, MapDel(Presets(d), key))
        gone == ToRemove(d1, key)
    IN  WithAliases(d1, [k \in (DOMAIN Aliases(d1)) \ gone |-> Aliases(d1)[k]])


\* variant: the not-found path persists too
DelPreset_SaveAlways(d, f, b, key, io) ==
    IF key \in DOMAIN Aliases(d)
    THEN LET d1 == DelAliasData(d, key)
             sv == SaveSafe(d1, f, b, io)
         IN  Outcome(d1, sv.file, sv.backup, "alias_deleted", {}, 1, sv)
    ELSE IF key \in DOMAIN Presets(d)
    THEN LET d1 == DelPresetData(d, key)
             sv == SaveSafe(d1, f, b, io)
         IN  Outcome(d1, sv.file, sv.backup, "preset_deleted", ToRemove(d, key), 1, sv)
    ELSE LET sv == SaveSafe(d, f, b, io)
         IN  Outcome(d, sv.file, sv.backup, "not_found", {}, 1, sv)

DelPreset(d, f, b, key, io) ==
    IF key \in DOMAIN Aliases(d)
    THEN LET d1 == DelAliasData(d, key)
             sv == SaveSafe(d1, f, b, io)
         IN  Outcome(d1, sv.file, sv.backup, "alias_deleted", {}, 1, sv)
    ELSE IF key \in DOMAIN Presets(d)
    THEN LET d1 == DelPresetData(d, key)
             sv == SaveSafe(d1, f, b, io)
         IN  Outcome(d1, sv.file, sv.backup, "preset_deleted", ToRemove(d, key), 1, sv)
    ELSE Outcome(d, f, b, "not_found", {}, 0, NoSave)

---------------------------------------------------------------------------
(* Store files found at start-up *)

FlatV0 ==
    JObject([k \in {"erciyuan", "n1"} |->
        IF k = "erciyuan" THEN JString("c1")
        ELSE JObject([j \in {"prompt", "negative"} |->
                         IF j = "prompt" THEN JString("c2") ELSE JString("z")])])

EmptyV2 == JObject([k \in {"presets"} |-> JObject(EmptyMap)])

InitialFiles ==
    {Absent, Text(FlatV0), Text(EmptyV2)}

---------------------------------------------------------------------------
(* The state machine *)

\* the latest _save_safe result and the migrations persisted, after a handler
\* that produced o
After(h, o) ==
    [lastSave |-> IF o.saves = 0 THEN h.lastSave
                  ELSE IF o.saveOk THEN "ok" ELSE "failed",
     migrated |-> h.migrated \/ (o.reply = "migrated" /\ o.saveOk)]

NoHist == [lastSave |-> "none", migrated |-> FALSE]

\* a handler, called as c, runs from its entry to its first yield
ApplyCall(r, c) ==
    /\ steps < MaxSteps
    /\ data' = r.data
    /\ file' = r.file
    /\ backup' = r.backup
    /\ out' = r.out
    /\ call' = c
    /\ pre' = [data |-> data, file |-> file, backup |-> backup, hist |-> hist]
    /\ steps' = steps + 1
    /\ faults' = faults + Failed(r.out.io)
    /\ hist' = After(hist, r.out)

ApplyCore(r, op, a1, a2) == ApplyCall(r, [op |-> op, a1 |-> a1, a2 |-> a2])

Apply(r, op, a1, a2) ==
    /\ ApplyCore(r, op, a1, a2)
    /\ UNCHANGED running

\* _load_data as a handler result
LoadOutcome(r, io) ==
    [data |-> r.data, file |-> r.file, backup |-> r.backup,
     out |-> [reply |-> r.branch, removed |-> {}, saves |-> r.saves,
              saveOk |-> r.saveOk, wrote |-> r.wrote,
              io |-> IF r.saves = 0 THEN "none" ELSE io]]

\* the plugin is constructed on a data directory holding one of files
InitWith(files) ==
    \E f0 \in files :
    \E io \in IF MaxFaults > 0 THEN SaveOutcomes(f0) ELSE {"ok"} :
        LET r == LoadOutcome(LoadData(f0, Absent, io), io)
        IN  /\ data = r.data
            /\ file = r.file
            /\ backup = r.backup
            /\ out = r.out
            /\ call = [op |-> "load", a1 |-> "", a2 |-> ""]
            /\ pre = [data |-> EmptyData, file |-> f0, backup |-> Absent,
                      hist |-> NoHist]
            /\ steps = 0
            /\ faults = Failed(r.out.io)
            /\ hist = After(NoHist, r.out)
            /\ running = EmptyBag

Init == InitWith(InitialFiles)

add_preset ==
    \E parts \in Messages : \E io \in Io(file) :
        Apply(AddPreset(data, file, backup, parts, io), "add_preset",
              IF Len(parts) >= 2 THEN parts[2] ELSE "",
              IF Len(parts) >= 3 THEN parts[3] ELSE "")

add_alias ==
    \E source \in Names : \E alias \in Names : \E io \in Io(file) :
        Apply(AddAlias(data, file, backup, source, alias, io), "add_alias", source, alias)

del_preset ==
    \E key \in Names : \E io \in Io(file) :
        Apply(DelPreset(data, file, backup, key, io), "del_preset", key, "")

Next == add_preset \/ add_alias \/ del_preset

Spec == Init /\ [][Next]_vars

\* the process is restarted: a new instance is constructed on the same directory
restart ==
    \E io \in Io(file) :
        Apply(LoadOutcome(LoadData(file, backup, io), io), "restart", "", "")

NextRestart == Next \/ restart

SpecRestart == Init /\ [][NextRestart]_vars


---------------------------------------------------------------------------
(* Loading: the store files _load_data may meet, and restarts on them *)

Obj1(k, v) == JObject([x \in {k} |-> v])
Obj2(k1, v1, k2, v2) == JObject([x \in {k1, k2} |-> IF x = k1 THEN v1 ELSE v2])

\* the flat file {"a": "x", "b": {"prompt": "y", "negative": "z"}}
FlatExample ==
    Obj2("a", JString("x"), "b", Obj2("prompt", JString("y"), "negative", JString("z")))

EntryValues ==
    {JString("x"), JString("y"), JNumber("7"), JNull, JArray,
     Obj2("prompt", JString("y"), "negative", JString("z")),
     Obj1("negative", JString("z")),
     Obj1("prompt", JNumber("7"))}

FlatFiles ==
    {Obj1(k, v) : k \in {"a", "presets"}, v \in EntryValues}
    \cup {Obj2("a", v, "b", w) : v \in EntryValues, w \in EntryValues}
    \cup {JObject(EmptyMap)}

V2Presets == {JObject(EmptyMap), Obj1("a", JString("x")),
              Obj2("a", JString("x"), "b", JString("y"))}
V2Aliases == {JObject(EmptyMap), Obj1("c", JString("a")), JArray, JNull,
              JNumber("7"), JString("a")}

V2Files ==
    {Obj1("presets", p) : p \in V2Presets}
    \cup {Obj2("presets", p, "aliases", a) : p \in V2Presets, a \in V2Aliases}

NotMappings == {JArray, JNull, JNumber("7"), JString("presets"), JString("x")}

LoadFiles ==
    {Absent}
    \cup {Text(j) : j \in FlatFiles \cup V2Files \cup NotMappings}
    \cup {Truncated(Text(j)) : j \in {FlatExample, Obj1("presets", JObject(EmptyMap))}}

InitLoad == InitWith(LoadFiles)

SpecLoad == InitLoad /\ [][restart]_vars


---------------------------------------------------------------------------
(* Start-up reconciliation of the configured "key: value" entries.  The    *)
(* source's __init__ (main.py 13-28) takes config and does not read it;    *)
(* this part follows the design document, section 4.4.  An entry is a      *)
(* sequence of characters.                                                 *)

RECURSIVE Trim(_)
Trim(cs) ==
    IF cs # <<>> /\ Head(cs) = " " THEN Trim(Tail(cs))
    ELSE IF cs # <<>> /\ cs[Len(cs)] = " " THEN Trim(SubSeq(cs, 1, Len(cs) - 1))
    ELSE cs

RECURSIVE Join(_)
Join(cs) == IF cs = <<>> THEN "" ELSE Head(cs) \o Join(Tail(cs))

FirstColon(cs) ==
    IF \E i \in 1..Len(cs) : cs[i] = ":"
    THEN CHOOSE i \in 1..Len(cs) : cs[i] = ":" /\ \A j \in 1..(i - 1) : cs[j] # ":"
    ELSE 0

\* variant: key and value are not trimmed
ParseEntry_NoTrim(cs) ==
    LET c == FirstColon(cs)
    IN  IF c = 0 THEN [ok |-> FALSE, key |-> "", value |-> ""]
        ELSE LET k == Join(SubSeq(cs, 1, c - 1))
                 v == Join(SubSeq(cs, c + 1, Len(cs)))
             IN  [ok |-> k # "" /\ v # "", key |-> k, value |-> v]

ParseEntry(cs) ==
    LET c == FirstColon(cs)
    IN  IF c = 0 THEN [ok |-> FALSE, key |-> "", value |-> ""]
        ELSE LET k == Join(Trim(SubSeq(cs, 1, c - 1)))
                 v == Join(Trim(SubSeq(cs, c + 1, Len(cs))))
             IN  [ok |-> k # "" /\ v # "", key |-> k, value |-> v]

RECURSIVE ReconcileFrom(_, _, _, _)
ReconcileFrom(p, texts, i, changed) ==
    IF i > Len(texts) THEN [presets |-> p, changed |-> changed]
    ELSE LET e == ParseEntry(texts[i])
         IN  IF e.ok /\ (e.key \notin DOMAIN p \/ p[e.key] # PyStr(e.value))
             THEN ReconcileFrom(MapSet(p, e.key, PyStr(e.value)), texts, i + 1, TRUE)
             ELSE ReconcileFrom(p, texts, i + 1, changed)

Reconcile(d, texts) == ReconcileFrom(Presets(d), texts, 1, FALSE)

\* the pass over the entries, then one persist if anything changed
ReconcileAtStartup(d, f, b, texts, io) ==
    LET r == Reconcile(d, texts)
        d1 == WithPresets(d, r.presets)
    IN  IF r.changed
        THEN LET sv == SaveSafe(d1, f, b, io)
             IN  Outcome(d1, sv.file, sv.backup, "changed", {}, 1, sv)
        ELSE Outcome(d, f, b, "unchanged", {}, 0, NoSave)

\* configured entries, each with the key and value it stands for
Entry(text, ok, key, value) == [text |-> text, ok |-> ok, key |-> key, value |-> value]

EntryPool ==
    {Entry(<<"k", ":", " ", "n">>, TRUE, "k", "n"),
     Entry(<<"k", ":", "o">>, TRUE, "k", "o"),
     Entry(<<"b", "a", "d">>, FALSE, "", ""),
     Entry(<<"m", ":", " ">>, FALSE, "", ""),
     Entry(<<" ", ":", "n">>, FALSE, "", ""),
     Entry(<<" ", "m", " ", ":", " ", "x", ":", "y", " ">>, TRUE, "m", "x:y"),
     Entry(<<"a", ":", "n">>, TRUE, "a", "n")}

EntryLists == UNION {[1..n -> EntryPool] : n \in 0..MaxEntries}

\* {"presets": {"k": "o"}, "aliases": {"a": "k"}}
ConfiguredStore ==
    Obj2("presets", Obj1("k", JString("o")), "aliases", Obj1("a", JString("k")))

ReconcileFiles == {Absent, Text(ConfiguredStore), Text(EmptyV2)}

InitReconcile == InitWith(ReconcileFiles)

reconcile ==
    /\ call.op = "load"
    /\ \E es \in EntryLists : \E io \in Io(file) :
          /\ ApplyCall(ReconcileAtStartup(data, file, backup,
                                          [i \in 1..Len(es) |-> es[i].text], io),
                       [op |-> "reconcile", a1 |-> "", a2 |-> "", entries |-> es])
          /\ UNCHANGED running

SpecReconcile == InitReconcile /\ [][reconcile]_vars


---------------------------------------------------------------------------
(* Cooperative scheduling.  A command handler is an async generator: it    *)
(* runs without interruption from its entry to its first yield (or await), *)
(* is suspended there, and is resumed later; other handlers and the        *)
(* synchronous readers resolve_preset and get_all_keys may run in between. *)

\* variant: del_preset is suspended after persisting the deletion of the
\* preset, before the cascade over its aliases
UpToFirstYield_AwaitBeforeCascade(c, d, f, b, io) ==
    CASE c.op = "add_preset" ->
            AddPreset(d, f, b,
                      IF c.a2 # "" THEN <<"add_preset", c.a1, c.a2>>
                      ELSE IF c.a1 # "" THEN <<"add_preset", c.a1>>
                      ELSE <<"add_preset">>, io)
      [] c.op = "add_alias" -> AddAlias(d, f, b, c.a1, c.a2, io)
      [] c.op = "del_preset" ->
            IF c.a1 \notin DOMAIN Aliases(d) /\ c.a1 \in DOMAIN Presets(d)
            THEN LET d1 == WithPresets(d, MapDel(Presets(d), c.a1))
                     sv == SaveSafe(d1, f, b, io)
                 IN  Outcome(d1, sv.file, sv.backup, "preset_deleted", {}, 1, sv)
            ELSE DelPreset(d, f, b, c.a1, io)

\* what the handler called as c does before it is first suspended
UpToFirstYield(c, d, f, b, io) ==
    CASE c.op = "add_preset" ->
            AddPreset(d, f, b,
                      IF c.a2 # "" THEN <<"add_preset", c.a1, c.a2>>
                      ELSE IF c.a1 # "" THEN <<"add_preset", c.a1>>
                      ELSE <<"add_preset">>, io)
      [] c.op = "add_alias" -> AddAlias(d, f, b, c.a1, c.a2, io)
      [] c.op = "del_preset" -> DelPreset(d, f, b, c.a1, io)

\* the calls interleaved: promotion of an alias, cascading deletion, linking
ConcNames == {"erciyuan", "dongman"}
Calls ==
    {[op |-> "add_preset", a1 |-> "", a2 |-> ""]}
    \cup {[op |-> "add_preset", a1 |-> k, a2 |-> "c1"] : k \in ConcNames}
    \cup {[op |-> "add_alias", a1 |-> x, a2 |-> y] : x \in ConcNames, y \in ConcNames}
    \cup {[op |-> "del_preset", a1 |-> k, a2 |-> ""] : k \in ConcNames}

\* a read: nothing changes, value is what the caller gets
Seen(what, value) ==
    [data |-> data, file |-> file, backup |-> backup,
     out |-> [reply |-> what, removed |-> {}, saves |-> 0, saveOk |-> FALSE,
              wrote |-> FALSE, io |-> "none", value |-> value]]

Suspend(op) == running' = running (+) SetToBag({op})

begin_handler ==
    \E c \in Calls : \E io \in Io(file) :
        /\ ApplyCall(UpToFirstYield(c, data, file, backup, io), c)
        /\ Suspend(c.op)

\* export_presets writes json.dump(self.data) to a new file, then awaits send_file
export_presets ==
    /\ ApplyCall(Seen("exported", Dump(data)), [op |-> "export_presets", a1 |-> "", a2 |-> ""])
    /\ Suspend("export_presets")

resolve_preset ==
    \E key \in ConcNames \cup {""} :
        /\ ApplyCall(Seen("resolved", Resolve(data, key)),
                     [op |-> "resolve_preset", a1 |-> key, a2 |-> ""])
        /\ UNCHANGED running

get_all_keys ==
    /\ ApplyCall(Seen("keys", GetAllKeys(data)), [op |-> "get_all_keys", a1 |-> "", a2 |-> ""])
    /\ UNCHANGED running

\* a suspended handler is resumed and returns
resume ==
    \E h \in BagToSet(running) :
        /\ running' = running (-) SetToBag({h})
        /\ UNCHANGED <<data, file, backup, call, out, pre, steps, faults, hist>>

NextConc ==
    begin_handler \/ export_presets \/ resolve_preset \/ get_all_keys \/ resume

SpecConc == Init /\ [][NextConc]_vars

---------------------------------------------------------------------------
(* Properties *)

P == Presets(data)
A == Aliases(data)
PreP == Presets(pre.data)
PreA == Aliases(pre.data)

Mutated == out.reply \in {"preset_saved", "save_failed", "linked",
                          "alias_deleted", "preset_deleted"}
SuccessReplies == {"preset_saved", "linked", "alias_deleted", "preset_deleted"}

\* C1: no dangling aliases - in the store the program starts with (default,
\* empty, or migrated from a flat file) and after every add_preset, add_alias
\* and del_preset, whether its persist succeeded or not, every alias value is
\* the name of a preset.
NoDanglingAliases ==
    \A a \in DOMAIN A : A[a].t = "str" /\ A[a].s \in DOMAIN P

\* a preset with aliases was deleted, the persist failed, other aliases remain
NoDanglingAliases_Witness ==
    /\ call.op = "del_preset"
    /\ out.reply = "preset_deleted"
    /\ out.removed # {}
    /\ ~out.saveOk
    /\ DOMAIN A # {}

\* C2: disjoint namespaces - no name is both a preset key and an alias key;
\* add_preset on a name that was an alias removes the alias entry; add_alias
\* with an alias that is a preset name is rejected and changes nothing.
DisjointNamespaces ==
    /\ (DOMAIN P) \cap (DOMAIN A) = {}
    /\ (call.op = "add_preset" /\ call.a2 # "" /\ call.a1 \in DOMAIN PreA)
          => (call.a1 \notin DOMAIN A /\ call.a1 \in DOMAIN P)
    /\ (call.op = "add_alias" /\ call.a2 \in DOMAIN PreP)
          => (out.reply \in {"source_missing", "alias_is_preset"} /\ data = pre.data)

\* add_alias was given an existing preset as source and a preset name as alias
DisjointNamespaces_Witness ==
    /\ call.op = "add_alias"
    /\ call.a1 \in DOMAIN PreP
    /\ call.a2 \in DOMAIN PreP
    /\ call.a1 # call.a2

\* C3: right after add_preset(name, content), resolve_preset(name) is content,
\* also when name was an alias of another preset or already had other content.
AddThenResolve ==
    (call.op = "add_preset" /\ call.a2 # "")
        => Resolve(data, call.a1) = PyStr(call.a2)

\* add_preset on a name that was an alias of a preset with other content
AddThenResolve_Witness ==
    /\ call.op = "add_preset"
    /\ call.a2 # ""
    /\ call.a1 \in DOMAIN PreA
    /\ Resolve(pre.data, call.a1).t = "str"
    /\ Resolve(pre.data, call.a1) # PyStr(call.a2)

\* C4: after add_alias(source, alias) with source a preset and alias not a
\* preset name, resolve_preset(alias) is resolve_preset(source) and is a
\* content, also when alias pointed to another preset before.
AliasResolvesAsSource ==
    (call.op = "add_alias" /\ call.a1 \in DOMAIN PreP /\ call.a2 \notin DOMAIN PreP)
        => /\ Resolve(data, call.a2) = Resolve(data, call.a1)
           /\ Resolve(data, call.a2).t = "str"
           /\ Resolve(data, call.a2) = PreP[call.a1]

\* the alias pointed to a different preset before the call
AliasResolvesAsSource_Witness ==
    /\ call.op = "add_alias"
    /\ out.reply = "linked"
    /\ call.a2 \in DOMAIN PreA
    /\ PreA[call.a2] # PyStr(call.a1)
    /\ Resolve(pre.data, call.a2) # Resolve(data, call.a2)

\* C5: add_alias(source, alias) is rejected when source is not a preset and
\* when alias is a preset; a rejected call leaves presets, aliases and the
\* store file unchanged.
AddAliasRejected ==
    (call.op = "add_alias" /\ (call.a1 \notin DOMAIN PreP \/ call.a2 \in DOMAIN PreP))
        => /\ out.reply = IF call.a1 \notin DOMAIN PreP
                          THEN "source_missing" ELSE "alias_is_preset"
           /\ data = pre.data
           /\ file = pre.file
           /\ backup = pre.backup
           /\ out.saves = 0

\* add_alias with a source that is no preset, on a store with a store file
AddAliasRejected_Witness ==
    /\ call.op = "add_alias"
    /\ call.a1 \notin DOMAIN PreP
    /\ call.a2 \notin DOMAIN PreP
    /\ out.reply = "source_missing"
    /\ Exists(file)

\* C6: del_preset(name) with name a preset (and no alias) removes name and
\* exactly the aliases pointing to it, reports exactly those aliases, makes
\* name and those aliases resolve to None, and leaves every other preset and
\* every alias of another preset unchanged.
DelPresetCascades ==
    (call.op = "del_preset" /\ call.a1 \in DOMAIN PreP /\ call.a1 \notin DOMAIN PreA)
        => LET name == call.a1
               pointing == {a \in DOMAIN PreA : PreA[a] = PyStr(name)}
           IN  /\ name \notin DOMAIN P
               /\ \A a \in DOMAIN A : A[a] # PyStr(name)
               /\ Resolve(data, name) = PyNone
               /\ \A a \in pointing : Resolve(data, a) = PyNone
               /\ out.removed = pointing
               /\ (DOMAIN PreA) \ (DOMAIN A) = pointing
               /\ DOMAIN P = (DOMAIN PreP) \ {name}
               /\ \A k \in DOMAIN P : P[k] = PreP[k]
               /\ \A a \in (DOMAIN PreA) \ pointing : a \in DOMAIN A /\ A[a] = PreA[a]

\* a preset with two aliases was deleted while another preset keeps its alias
DelPresetCascades_Witness ==
    /\ call.op = "del_preset"
    /\ out.reply = "preset_deleted"
    /\ Cardinality(out.removed) >= 2
    /\ DOMAIN A # {}
    /\ DOMAIN P # {}

\* C7: del_preset(name) with name an alias deletes only aliases[name]: presets
\* is unchanged, the canonical preset still resolves to its content, and every
\* other alias, also of the same preset, is unchanged.
DelAliasOnly ==
    (call.op = "del_preset" /\ call.a1 \in DOMAIN PreA)
        => /\ out.reply = "alias_deleted"
           /\ P = PreP
           /\ A = MapDel(PreA, call.a1)
           /\ Resolve(data, PreA[call.a1].s) = PreP[PreA[call.a1].s]

\* an alias was deleted and another alias of the same preset remains
DelAliasOnly_Witness ==
    /\ call.op = "del_preset"
    /\ call.a1 \in DOMAIN PreA
    /\ \E b \in DOMAIN A : A[b] = PreA[call.a1]

\* C8: del_preset(name) with name neither alias nor preset reports not-found,
\* makes no persist attempt and leaves presets, aliases, store file and backup
\* file unchanged.
DelUnknown ==
    (call.op = "del_preset" /\ call.a1 \notin DOMAIN PreA /\ call.a1 \notin DOMAIN PreP)
        => /\ out.reply = "not_found"
           /\ out.saves = 0
           /\ data = pre.data
           /\ file = pre.file
           /\ backup = pre.backup

\* del_preset of an unknown name on a store that has a store file and a backup
DelUnknown_Witness ==
    /\ call.op = "del_preset"
    /\ out.reply = "not_found"
    /\ Exists(file)
    /\ Exists(backup)
    /\ backup # file

\* C9: each mutating command makes one persist attempt after its mutation; when
\* that attempt fails the reply differs from every success reply and the
\* mutation stays applied.
PersistFailureReported ==
    (call.op \in {"add_preset", "add_alias", "del_preset"} /\ Mutated)
        => /\ out.saves = 1
           /\ ~out.saveOk => out.reply \notin SuccessReplies

FailedSaveRestoresFile ==
    (out.saves = 1 /\ out.wrote /\ ~out.saveOk /\ Exists(pre.file))
        => file = pre.file

\* C12: round trip across a restart - after a successful _save_safe, _load_data
\* on the written file takes the v2 branch, yields the same presets and the
\* same aliases and writes nothing, also when presets is empty.
RoundTripAcrossRestart ==
    (call.op = "restart" /\ pre.hist.lastSave = "ok")
        => /\ out.reply = "v2"
           /\ Presets(data) = Presets(pre.data)
           /\ Aliases(data) = Aliases(pre.data)
           /\ out.saves = 0
           /\ file = pre.file
           /\ backup = pre.backup

\* a store emptied of its presets by commands was saved and loaded again
RoundTripAcrossRestart_Witness ==
    /\ call.op = "restart"
    /\ pre.hist.lastSave = "ok"
    /\ Presets(pre.data) = EmptyMap
    /\ pre.file = Text(Dump(pre.data))
    /\ out.reply = "v2"

\* C17: a failure of the backup copy in _save_safe does not abort the save: the
\* store file is still written, and the call reports success when that write
\* succeeds.
BackupFailureDoesNotAbort ==
    (out.saves = 1 /\ out.io \in {"copy_fail", "copy_partial"})
        => /\ out.wrote
           /\ out.saveOk
           /\ file = Text(Dump(data))

\* C19: memory and disk agree - whenever the latest persist attempt succeeded,
\* the store file is the serialization of the current store; after a failed
\* persist the next successful one brings the file back to the current store,
\* with the mutations made in between.
DiskAgreesWithMemory ==
    hist.lastSave = "ok" => file = Text(Dump(data))

\* a command persisted successfully after an earlier persist had failed and
\* left the file behind the store
DiskAgreesWithMemory_Witness ==
    /\ call.op \in {"add_preset", "add_alias", "del_preset"}
    /\ pre.hist.lastSave = "failed"
    /\ pre.file # Text(Dump(pre.data))
    /\ Exists(pre.file)
    /\ hist.lastSave = "ok"
    /\ data # pre.data

Loads == {"load", "restart"}

\* the file _load_data read was parsed to a mapping
ReadMapping == call.op \in Loads /\ pre.file.kind = "text" /\ pre.file.doc.t = "object"
\* ... with a 'presets' field holding a mapping
ReadV2 ==
    /\ ReadMapping
    /\ "presets" \in DOMAIN pre.file.doc.o
    /\ pre.file.doc.o["presets"].t = "object"

\* the string form of a JSON value once loaded
FormOf(j) ==
    CASE j.t = "string" -> j.s
      [] j.t = "number" -> j.s
      [] j.t = "null"   -> "None"
      [] j.t = "array"  -> "[]"
      [] j.t = "object" -> StrOf(Parse(j))

\* C13: migration of a flat legacy file - a top-level mapping without a
\* 'presets' mapping is loaded into presets with the same keys, each content
\* the string form of the entry's 'prompt' field if the entry is a mapping
\* holding one and of the entry's value otherwise, and into empty aliases;
\* {"a": "x", "b": {"prompt": "y", "negative": "z"}} gives {"a": "x", "b": "y"}.
FlatFileMigrated ==
    (ReadMapping /\ ~ReadV2)
        => LET doc == pre.file.doc.o
           IN  /\ out.reply = "migrated"
               /\ DOMAIN Presets(data) = DOMAIN doc
               /\ \A k \in DOMAIN doc :
                     Presets(data)[k] =
                        PyStr(IF doc[k].t = "object" /\ "prompt" \in DOMAIN doc[k].o
                              THEN FormOf(doc[k].o["prompt"])
                              ELSE FormOf(doc[k]))
               /\ Aliases(data) = EmptyMap
               /\ pre.file.doc = FlatExample
                     => Presets(data) = [k \in {"a", "b"} |->
                                            IF k = "a" THEN PyStr("x") ELSE PyStr("y")]

\* the example file was loaded
FlatFileMigrated_Witness ==
    /\ call.op = "load"
    /\ pre.file = Text(FlatExample)
    /\ out.reply = "migrated"
    /\ DOMAIN Presets(data) = {"a", "b"}

\* C14: migration is one-shot - the legacy branch of _load_data makes a persist
\* attempt at once; when it succeeds the store file has the v2 shape and every
\* later load takes the v2 branch, yields the same presets and aliases and
\* neither migrates nor writes.
MigrationOneShot ==
    /\ (call.op \in Loads /\ out.reply = "migrated")
          => /\ out.saves = 1
             /\ out.saveOk
                   => /\ file.kind = "text"
                      /\ file.doc.t = "object"
                      /\ DOMAIN file.doc.o = {"presets", "aliases"}
                      /\ file.doc.o["presets"].t = "object"
                      /\ file.doc.o["aliases"].t = "object"
                      /\ hist.migrated
    /\ (call.op = "restart" /\ pre.hist.migrated)
          => /\ out.reply = "v2"
             /\ Presets(data) = Presets(pre.data)
             /\ Aliases(data) = Aliases(pre.data)
             /\ out.saves = 0
             /\ file = pre.file

\* the second restart after a persisted migration
MigrationOneShot_Witness ==
    /\ call.op = "restart"
    /\ pre.hist.migrated
    /\ steps >= 2
    /\ out.reply = "v2"
    /\ DOMAIN Presets(data) # {}

\* C15: load never crashes - a store file that cannot be parsed, or whose
\* top-level value is no mapping, is no migration case and raises nothing:
\* _load_data ends with the default store, which has no dangling alias and no
\* name that is both preset and alias.
CorruptFileLoadsDefault ==
    (call.op \in Loads /\ Exists(pre.file)
        /\ (pre.file.kind = "partial" \/ pre.file.doc.t # "object"))
        => /\ out.reply = "default"
           /\ data = DefaultData
           /\ \A a \in DOMAIN Aliases(data) : Aliases(data)[a].s \in DOMAIN Presets(data)
           /\ (DOMAIN Presets(data)) \cap (DOMAIN Aliases(data)) = {}

\* a file holding a JSON list was loaded
CorruptFileLoadsDefault_Witness ==
    /\ call.op = "load"
    /\ pre.file = Text(JArray)
    /\ data = DefaultData

\* C18: after _load_data read a v2 file, aliases is a mapping: the file's
\* 'aliases' when that is a mapping, the empty mapping when the field is absent
\* or no mapping; resolve_preset and get_all_keys then never raise.
V2AliasesIsMapping ==
    ReadV2
        => LET doc == pre.file.doc.o
               given == "aliases" \in DOMAIN doc /\ doc["aliases"].t = "object"
           IN  /\ data.o["aliases"].t = "dict"
               /\ Aliases(data) = IF given THEN Parse(doc["aliases"]).o ELSE EmptyMap
               /\ \A key \in {"", "a", "c", "zz"} : Resolve(data, key) # Raised
               /\ GetAllKeys(data) # Raised

\* the configured entries of the reconcile pass that are well-formed
ValidEntries == {i \in 1..Len(call.entries) : call.entries[i].ok}

ReconcileFrame ==
    /\ DOMAIN P = (DOMAIN PreP) \cup {call.entries[i].key : i \in ValidEntries}
    /\ \A k \in DOMAIN PreP :
          (\A i \in ValidEntries : call.entries[i].key # k) => P[k] = PreP[k]
    /\ A = PreA
    /\ (out.reply = "changed") <=>
          \E i \in ValidEntries :
              \/ call.entries[i].key \notin DOMAIN PreP
              \/ PreP[call.entries[i].key] # PyStr(call.entries[i].value)
    /\ out.saves = IF out.reply = "changed" THEN 1 ELSE 0

---------------------------------------------------------------------------
\* the store d has no dangling alias and no name in both namespaces
Sound(d) ==
    /\ \A a \in DOMAIN Aliases(d) :
          Aliases(d)[a].t = "str" /\ Aliases(d)[a].s \in DOMAIN Presets(d)
    /\ (DOMAIN Presets(d)) \cap (DOMAIN Aliases(d)) = {}

\* C20: handler atomicity under cooperative scheduling - with add_preset,
\* add_alias, del_preset and export_presets suspended at their first yield or
\* await and interleaved there with each other and with resolve_preset and
\* get_all_keys, the store seen at every suspension point has no dangling
\* alias and no name that is both a preset and an alias: resolve_preset of an
\* alias returns its preset's content, get_all_keys returns the keys of such a
\* store, the export is the dump of such a store, and a store file written by
\* a handler is the dump of the whole mutation, cascade and alias removal
\* included.
HandlersAtomic ==
    /\ Sound(data)
    /\ (call.op = "resolve_preset" /\ call.a1 \in DOMAIN A)
          => (out.value.t = "str" /\ out.value = P[A[call.a1].s])
    /\ call.op = "get_all_keys"
          => (out.value # Raised /\ out.value.items = (DOMAIN P) \cup (DOMAIN A))
    /\ call.op = "export_presets"
          => (Parse(out.value) = data /\ Sound(Parse(out.value)))
    /\ (call.op \in {"add_preset", "add_alias", "del_preset"} /\ out.saveOk)
          => (file = Text(Dump(data)) /\ Sound(Parse(file.doc)))
    /\ (call.op = "del_preset" /\ out.reply = "preset_deleted")
          => \A a \in DOMAIN PreA : PreA[a].s = call.a1 => a \notin DOMAIN A
    /\ (call.op = "add_preset" /\ out.reply \in {"preset_saved", "save_failed"})
          => call.a1 \notin DOMAIN A

\* get_all_keys runs while a promoting add_preset and a del_preset are both
\* suspended at their yield
HandlersAtomic_Witness ==
    /\ call.op = "get_all_keys"
    /\ CopiesIn("add_preset", running) >= 1
    /\ CopiesIn("del_preset", running) >= 1
    /\ "dongman" \in DOMAIN P
    /\ "erciyuan" \notin DOMAIN P
    /\ out.value.items = (DOMAIN P) \cup (DOMAIN A)

====
